---- MODULE Spec2Model ----
(***************************************************************************)
(* The inventory model of main.py (class Model) and the input handlers of  *)
(* class App that feed it.                                                 *)
(*                                                                         *)
(* Python values.  A number n is the tuple <<n>>, Python's None is the     *)
(* empty tuple, float('inf') and a raised exception are tagged pairs, so   *)
(* that a field which may hold a number or None is one well-typed value.   *)
(* A function whose evaluation raises yields Raise(...) here, and its      *)
(* caller stops at that point as the Python caller does.                   *)
(*                                                                         *)
(* Numbers.  The inputs are integers.  The derived quantities q0, B, Q, V, *)
(* TP and the values of I(t) are rationals whose denominators divide 6     *)
(* (main.py divides by 2 and by 6 only), so they are held exactly as       *)
(* numerators over Den = 6: a stored q0 of <<126>> is the program's 21.    *)
(* D(t) involves no division and is held as it is.                         *)
(***************************************************************************)
EXTENDS Integers, Sequences, FiniteSets

VARIABLES
    model,    \* the fields of App.model (class Model)
    widgets,  \* the min / max limits of the ui.number inputs T1, tn, T, p, c
    optimal,  \* App.optimal, the result shown after "optimize"
    event,    \* the sender of the event handled last
    calls,    \* the Model.update calls made while handling that event, in order
    solver,   \* the arguments of the minimize call made while handling that event
    err,      \* the error that ended the handler of that event ("none" if none)
    ret       \* the last evaluation of I(t) or D(t): function, argument, result

vars == <<model, widgets, optimal, event, calls, solver, err, ret>>

None == <<>>
N(n) == <<n>>
Num(v) == Len(v) = 1
val(v) == v[1]
Raise(e) == <<"raise", e>>
TypeError == Raise("TypeError")
\* float('inf')
Inf == <<"float", "inf">>

\* Denominator of the stored rationals: the divisors of main.py are 2 and 6.
Den == 6

\* ---------------------------------------------------------------- bounds
\* Largest time typed into T1, tn, T (the smallest is -1, below the range).
MaxTime == 1
\* Largest coefficient typed into a, b.
MaxCoef == 1
\* Largest price typed into p, c (the smallest is -1, below the range).
MaxPrice == 1
\* Largest discount typed into s.
MaxDisc == 0
\* Largest time parameter T1, tn, T when the functions are evaluated on
\* their own (FnSpec).
MaxArg == 2

Opt(S) == {N(n) : n \in S} \cup {None}
TimeVals == Opt(-1 .. MaxTime)
CoefVals == Opt(0 .. MaxCoef)
PriceVals == Opt(-1 .. MaxPrice)
DiscVals == Opt(0 .. MaxDisc)

\* ---------------------------------------------------------------- clamp
\* Python's min and max of two numbers (the second may be float('inf')).
PyMin(x, y) == IF y = Inf THEN x ELSE IF val(y) < val(x) THEN y ELSE x
PyMax(x, y) == IF val(y) > val(x) THEN y ELSE x

clamp_noLower(value, min_value, max_value) ==
    IF value = None THEN min_value
    ELSE PyMin(value, max_value)

clamp_noUpper(value, min_value, max_value) ==
    IF value = None THEN min_value
    ELSE PyMax(value, min_value)

clamp(value, min_value, max_value) ==
    IF value = None THEN min_value
    ELSE PyMax(PyMin(value, max_value), min_value)

\* ---------------------------------------------------------------- Model
Derived == <<"q0", "B", "Q", "V", "TP">>
DerivedSet == {Derived[i] : i \in 1..5}

_q0_noHalf(m, T1, T) ==
    IF Num(m.a) /\ Num(m.b)
    THEN N(Den * val(m.a) * T1 + Den * val(m.b) * T1 * T1)
    ELSE TypeError

_q0(m, T1, T) ==
    IF Num(m.a) /\ Num(m.b)
    THEN N(Den * val(m.a) * T1 + (Den \div 2) * val(m.b) * T1 * T1)
    ELSE TypeError

\* The first branch of _I: a * (T1 - t) + b / 2 * (T1 ** 2 - t ** 2).
I_ramp(a, b, t, T1) ==
    Den * a * (T1 - t) + (Den \div 2) * b * (T1 * T1 - t * t)

_I_plusSlope(m, t, T1, T) ==
    IF ~(Num(m.a) /\ Num(m.b) /\ Num(m.tn))
    THEN TypeError
    ELSE LET a == val(m.a)
             b == val(m.b)
             tn == val(m.tn)
         IN  IF 0 <= t /\ t <= tn
             THEN N(I_ramp(a, b, t, T1))
             ELSE IF tn < t /\ t <= T
             THEN IF 0 <= tn
                  THEN N(I_ramp(a, b, tn, T1) + Den * (a + b * tn) * (t - tn))
                  ELSE TypeError
             ELSE None

\* Model._I.  The second branch calls _I(tn, T1, T), which is the first
\* branch when 0 <= tn and None otherwise (tn < tn is false); None minus a
\* number raises TypeError.  Falling off the if / elif returns None.
_I(m, t, T1, T) ==
    IF ~(Num(m.a) /\ Num(m.b) /\ Num(m.tn))
    THEN TypeError
    ELSE LET a == val(m.a)
             b == val(m.b)
             tn == val(m.tn)
         IN  IF 0 <= t /\ t <= tn
             THEN N(I_ramp(a, b, t, T1))
             ELSE IF tn < t /\ t <= T
             THEN IF 0 <= tn
                  THEN N(I_ramp(a, b, tn, T1) - Den * (a + b * tn) * (t - tn))
                  ELSE TypeError
             ELSE None

_B(m, T1, T) ==
    LET i == _I(m, T, T1, T)
    IN  IF Num(i) THEN N(-val(i)) ELSE TypeError

_Q(m, T1, T) ==
    LET q == _q0(m, T1, T)
        sh == _B(m, T1, T)
    IN  IF Num(q) /\ Num(sh) THEN N(val(q) + val(sh)) ELSE TypeError

_D(m, t) ==
    IF ~(Num(m.a) /\ Num(m.b) /\ Num(m.tn))
    THEN TypeError
    ELSE IF t < val(m.tn)
         THEN N(val(m.a) + val(m.b) * t)
         ELSE N(val(m.a) + val(m.b) * val(m.tn))

_V_dropRamp(m, T1, T) ==
    IF ~(Num(m.a) /\ Num(m.b) /\ Num(m.tn))
    THEN TypeError
    ELSE LET a == val(m.a)
             b == val(m.b)
             tn == val(m.tn)
             Itn == _I(m, tn, T1, T)
         IN  IF ~(Num(Itn) /\ Num(m.s))
             THEN TypeError
             ELSE LET ItnT == val(Itn) * (T - tn)
                                - (Den \div 2) * (a + b * tn) * (T - tn) * (T - tn)
                  IN  N(-val(m.s) * ItnT)

\* Model._V.  (T1 - tn) ** 2 / 6 * (...) is (T1 - tn) ** 2 * (...) in sixths.
_V(m, T1, T) ==
    IF ~(Num(m.a) /\ Num(m.b) /\ Num(m.tn))
    THEN TypeError
    ELSE LET a == val(m.a)
             b == val(m.b)
             tn == val(m.tn)
             Itn == _I(m, tn, T1, T)
         IN  IF ~(Num(Itn) /\ Num(m.s))
             THEN TypeError
             ELSE LET It1tn == -((T1 - tn) * (T1 - tn)) * (3 * a + b * (tn + 2 * T1))
                      ItnT == val(Itn) * (T - tn)
                                - (Den \div 2) * (a + b * tn) * (T - tn) * (T - tn)
                  IN  N(-val(m.s) * (It1tn + ItnT))

_TP(m, T1, T) ==
    LET q == _Q(m, T1, T)
        v == _V(m, T1, T)
    IN  IF Num(m.p) /\ Num(m.c) /\ Num(q) /\ Num(v)
        THEN N((val(m.p) - val(m.c)) * val(q) - val(v))
        ELSE TypeError

check_all_set_truthy(m) ==
    \A f \in {"T", "T1", "tn", "a", "b"} : m[f] # None /\ m[f] # N(0)

check_all_set(m) ==
    m.T # None /\ m.T1 # None /\ m.tn # None /\ m.a # None /\ m.b # None

\* The five values Model.update assigns, in the order it assigns them.
DerivedValues(m) ==
    LET T1 == val(m.T1)
        T == val(m.T)
    IN  <<_q0(m, T1, T), _B(m, T1, T), _Q(m, T1, T), _V(m, T1, T), _TP(m, T1, T)>>

\* How many of the five assignments run before one raises.
Assigned(vals) ==
    IF \A i \in 1..5 : Num(vals[i]) THEN 5
    ELSE (CHOOSE i \in 1..5 : ~Num(vals[i]) /\ \A j \in 1..(i - 1) : Num(vals[j])) - 1

\* The assignments self.q0 = ... to self.TP = ... of Model.update and of
\* Model.__init__: the model after them, the fields overwritten and whether
\* one of them raised.
Recompute(m) ==
    LET vals == DerivedValues(m)
        k == Assigned(vals)
    IN  [model |-> [f \in DOMAIN m |->
                       IF \E i \in 1..k : Derived[i] = f
                       THEN vals[CHOOSE i \in 1..k : Derived[i] = f]
                       ELSE m[f]],
         written |-> {Derived[i] : i \in 1..k},
         raised |-> k < 5]

\* Model.update.  The refresh of x and of the figure that follows the five
\* assignments writes none of the fields held here.
update(m) ==
    IF ~check_all_set(m)
    THEN [model |-> m, written |-> {}, raised |-> FALSE]
    ELSE Recompute(m)

\* The parameters Model.__init__ sets.
Defaults ==
    [T |-> N(15), T1 |-> N(3), a |-> N(1), b |-> N(4), p |-> N(15000),
     c |-> N(10000), s |-> N(300), tn |-> N(6),
     q0 |-> None, B |-> None, Q |-> None, V |-> None, TP |-> None]

\* Model.__init__: the derived quantities computed from the defaults.
ModelInit == Recompute(Defaults).model

\* ---------------------------------------------------------------- App
\* ui.number(...) of generate_layout: the limits each input starts with.
WidgetsInit ==
    [T1 |-> [min |-> N(0), max |-> ModelInit.tn],
     tn |-> [min |-> ModelInit.T1, max |-> ModelInit.T],
     T |-> [min |-> ModelInit.tn, max |-> None],
     p |-> [min |-> ModelInit.c, max |-> None],
     c |-> [min |-> N(0), max |-> ModelInit.p]]

\* The part of the application a handler reads and writes.  The inputs are
\* bound to the model both ways (bind_value), so the value of an input is
\* the model's field of the same name.
AppState(m, w) == [model |-> m, widgets |-> w, calls |-> <<>>, err |-> "none"]

\* App.update_plot: Model.update, recorded with the parameters it saw.  An
\* exception leaves the handler there (plot.update is not reached); nicegui
\* catches it around each handler call, so the state written so far stays
\* and an enclosing handler goes on.
update_plot(app) ==
    LET r == update(app.model)
    IN  [app EXCEPT
            !.model = r.model,
            !.calls = Append(@, [T1 |-> app.model.T1, tn |-> app.model.tn,
                                 T |-> app.model.T, written |-> r.written,
                                 raised |-> r.raised]),
            !.err = IF r.raised THEN "TypeError" ELSE @]

RECURSIVE SetValue(_, _, _)
RECURSIVE update_boundaries(_, _, _)
RECURSIVE update_price(_, _, _)

\* The handler each input registers with on_value_change.
OnValueChange(app, w, v) ==
    CASE w \in {"T1", "tn", "T"} -> update_boundaries(app, w, v)
      [] w \in {"p", "c"} -> update_price(app, w, v)
      [] OTHER -> update_plot(app)

\* Assigning input.value: nothing when the value is the one it holds;
\* otherwise the value is stored, carried to the bound model field, and the
\* input's handler runs with it before the assignment returns.
SetValue(app, w, v) ==
    IF app.model[w] = v THEN app
    ELSE OnValueChange([app EXCEPT !.model[w] = v], w, v)

\* App.update_boundaries.  The limits min / max it assigns are the bounds
\* the values were clamped to.
update_boundaries(app, sender, value) ==
    LET m == app.model
        a1 == CASE sender = "T1" ->
                     LET s1 == SetValue(app, "T1", clamp(value, N(0), m.tn))
                     IN  [s1 EXCEPT !.widgets.tn.min = s1.model.T1]
                [] sender = "tn" ->
                     LET s1 == SetValue(app, "tn", clamp(value, m.T1, m.T))
                     IN  [s1 EXCEPT !.widgets.T.min = s1.model.tn,
                                    !.widgets.T1.max = s1.model.tn]
                [] sender = "T" ->
                     LET s1 == SetValue(app, "T", clamp(value, m.tn, Inf))
                     IN  [s1 EXCEPT !.widgets.tn.max = s1.model.T]
                [] OTHER -> app
    IN  update_plot(a1)

\* App.update_price.
update_price(app, sender, value) ==
    LET m == app.model
        a1 == CASE sender = "p" ->
                     LET s1 == SetValue(app, "p", clamp(value, m.c, Inf))
                     IN  [s1 EXCEPT !.widgets.c.max = s1.model.p]
                [] sender = "c" ->
                     LET s1 == SetValue(app, "c", clamp(value, N(0), m.p))
                     IN  [s1 EXCEPT !.widgets.p.min = s1.model.c]
                [] OTHER -> app
    IN  update_plot(a1)

\* A value-change event of input w carrying v: the input takes the value and
\* its handler runs to its end.
Input(w, v) ==
    /\ v # model[w]
    /\ \E r \in {SetValue(AppState(model, widgets), w, v)} :
          /\ model' = r.model
          /\ widgets' = r.widgets
          /\ calls' = r.calls
          /\ err' = r.err
    /\ event' = N(w)
    /\ solver' = None
    /\ UNCHANGED <<optimal, ret>>

ChangeT1 == \E v \in TimeVals : Input("T1", v)
Changetn == \E v \in TimeVals : Input("tn", v)
ChangeT == \E v \in TimeVals : Input("T", v)
Changea == \E v \in CoefVals : Input("a", v)
Changep == \E v \in PriceVals : Input("p", v)
Changec == \E v \in PriceVals : Input("c", v)
Changes == \E v \in DiscVals : Input("s", v)

Init ==
    /\ model = ModelInit
    /\ widgets = WidgetsInit
    /\ optimal = None
    /\ event = None
    /\ calls = <<>>
    /\ solver = None
    /\ err = "none"
    /\ ret = None

\* The time and price inputs, whose handlers clamp (update_boundaries,
\* update_price).  The inputs a, b, s, whose handler is update_plot alone,
\* are UpdSpec's; the "optimize" button is OptSpec's.
Next ==
    \/ ChangeT1
    \/ Changetn
    \/ ChangeT
    \/ Changep
    \/ Changec

Spec == Init /\ [][Next]_vars

\* The inputs that can leave the derived quantities behind: a (None makes
\* Model.update return early; b, which has the same handler and the same
\* place in check_all_set, keeps its constructor value), s (not covered by
\* check_all_set), and T1 as the clamped parameter that changes meanwhile.
UpdNext ==
    \/ Changea
    \/ Changes
    \/ ChangeT1

UpdSpec == Init /\ [][UpdNext]_vars

\* ---------------------------------------------------------------- optimize
\* np.array([0, 1]), the initial point Model.optimize hands to minimize.
optimize_x0 == <<0, 1>>

\* bounds=[(0, self.tn), (self.tn, self.T)] of Model.optimize.
optimize_bounds(m) == <<<<N(0), m.tn>>, <<m.tn, m.T>>>>

\* minimize(fun, x0, bounds, method='L-BFGS-B') of scipy, as far as
\* Model.optimize depends on it: the outcomes it can have.  The solver
\* returns a point of the box, here one of its corners; the objective
\* -_TP raises inside the solver when _TP does; a box with a lower bound
\* above its upper bound is refused with ValueError.
minimize(m, x0, bounds) ==
    IF \E i \in 1..2 : val(bounds[i][1]) > val(bounds[i][2])
    THEN {Raise("ValueError")}
    ELSE {IF Num(_TP(m, val(bounds[1][i]), val(bounds[2][j])))
          THEN N(<<val(bounds[1][i]), val(bounds[2][j])>>)
          ELSE TypeError : i \in 1..2, j \in 1..2}

\* Model.optimize: the outcomes of its call of minimize.
optimize(m) == minimize(m, optimize_x0, optimize_bounds(m))

\* App.set_optimal, the handler of the "optimize" button.  solver records
\* the call of minimize that Model.optimize makes.  App.optimal holds the
\* three numbers of the text it shows; an exception leaves it as it was.
set_optimal ==
    /\ \E x \in optimize(model) :
          /\ optimal' = IF Num(x)
                        THEN [T1 |-> val(x)[1], T |-> val(x)[2],
                              TP |-> _TP(model, val(x)[1], val(x)[2])]
                        ELSE optimal
          /\ err' = IF Num(x) THEN "none" ELSE x[2]
    /\ solver' = [x0 |-> optimize_x0, bounds |-> optimize_bounds(model)]
    /\ event' = N("optimize")
    /\ calls' = <<>>
    /\ UNCHANGED <<model, widgets, ret>>

\* The time inputs, which move the search box, and the "optimize" button.
OptNext ==
    \/ ChangeT1
    \/ Changetn
    \/ ChangeT
    \/ set_optimal

OptSpec == Init /\ [][OptNext]_vars

\* ---------------------------------------------------------------- functions
\* A Model holding any parameters of the bounded ranges, orderings that the
\* form would not let through included, its derived quantities not yet
\* computed.
FnInit ==
    /\ model \in {[Defaults EXCEPT !.T1 = N(x[1]), !.tn = N(x[2]), !.T = N(x[3]),
                                   !.a = N(y[1]), !.b = N(y[2]), !.s = N(y[3])] :
                     x \in (0 .. MaxArg) \X (0 .. MaxArg) \X (0 .. MaxArg),
                     y \in (-1 .. MaxCoef) \X (-1 .. MaxCoef) \X (0 .. MaxDisc + 1)}
    /\ widgets = WidgetsInit
    /\ optimal = None
    /\ event = None
    /\ calls = <<>>
    /\ solver = None
    /\ err = "none"
    /\ ret = None

\* Model.update on its own.
CallUpdate ==
    /\ model' = update(model).model
    /\ UNCHANGED <<widgets, optimal, event, calls, solver, err, ret>>

\* self.I(t): lambda x: self._I(x, self.T1, self.T).
CallI ==
    \E t \in -1 .. MaxArg + 1 :
        /\ ret' = [fn |-> "I", t |-> t,
                   value |-> _I(model, t, val(model.T1), val(model.T))]
        /\ UNCHANGED <<model, widgets, optimal, event, calls, solver, err>>

\* self.D(t): self._D.
CallD ==
    \E t \in -1 .. MaxArg + 1 :
        /\ ret' = [fn |-> "D", t |-> t, value |-> _D(model, t)]
        /\ UNCHANGED <<model, widgets, optimal, event, calls, solver, err>>

FnNext ==
    \/ CallUpdate
    \/ CallI
    \/ CallD

FnSpec == FnInit /\ [][FnNext]_vars

\* ---------------------------------------------------------------- claims
\* 0 <= T1 <= tn <= T, all three being numbers.
Ordered(T1, tn, T) ==
    /\ Num(T1) /\ Num(tn) /\ Num(T)
    /\ 0 <= val(T1) /\ val(T1) <= val(tn) /\ val(tn) <= val(T)

AllNumbers(m) ==
    \A f \in {"T1", "tn", "T", "a", "b", "p", "c", "s"} : Num(m[f])

IsRaise(v) == Len(v) = 2 /\ v[1] = "raise"

\* The widget limits follow the values they were set from.
LimitsInSync ==
    /\ widgets.T1.max = model.tn
    /\ widgets.tn.min = model.T1
    /\ widgets.tn.max = model.T
    /\ widgets.T.min = model.tn
    /\ widgets.p.min = model.c
    /\ widgets.c.max = model.p

\* C1: after any sequence of value-change events on T1, tn, T (numbers or
\* None), 0 <= T1 <= tn <= T holds whenever a handler has finished and at
\* every Model.update call that recomputed the derived quantities.
C1_Ordering ==
    /\ Ordered(model.T1, model.tn, model.T)
    /\ \A i \in DOMAIN calls :
          calls[i].written # {} => Ordered(calls[i].T1, calls[i].tn, calls[i].T)

\* A T1 event whose value had to be clamped up to 0 (it carried a negative
\* number or None): the handler ran again for the clamped value, and both
\* runs recomputed.
C1_Witness ==
    /\ event = N("T1")
    /\ Len(calls) = 2
    /\ model.T1 = N(0)
    /\ \A i \in 1..2 : calls[i].written = DerivedSet

\* C2: after any sequence of value-change events on p and c (numbers or
\* None), 0 <= c <= p holds whenever a handler has finished.
C2_PriceOrdering ==
    /\ Num(model.p) /\ Num(model.c)
    /\ 0 <= val(model.c) /\ val(model.c) <= val(model.p)

\* A p event whose value had to be clamped up to c.
C2_Witness ==
    /\ event = N("p")
    /\ Len(calls) = 2
    /\ model.p = model.c

\* C3: every Model.update call overwrites all five of q0, B, Q, V, TP or
\* none of them.
C3_AllOrNothing ==
    \A i \in DOMAIN calls : calls[i].written \in {{}, DerivedSet}

\* C4: whenever a handler has finished and all eight parameters are
\* numbers, the stored q0, B, Q, V, TP are _q0, _B, _Q, _V, _TP at the
\* current parameters, and one more Model.update changes none of them.
C4_Fresh ==
    AllNumbers(model) =>
        /\ \A i \in 1..5 : model[Derived[i]] = DerivedValues(model)[i]
        /\ update(model).model = model

\* An a event carrying 0 with every parameter a number: the update ran and
\* overwrote all five.
C4_Witness ==
    /\ event = N("a")
    /\ model.a = N(0)
    /\ AllNumbers(model)
    /\ Len(calls) = 1
    /\ calls[1].written = DerivedSet

\* C5: with a >= 0, b >= 0 and 0 <= T1 <= tn <= T, the computed B is >= 0.
C5_ShortageNonNegative ==
    (/\ model.B # None
     /\ val(model.a) >= 0 /\ val(model.b) >= 0
     /\ Ordered(model.T1, model.tn, model.T))
    => val(model.B) >= 0

\* B computed for T1 < tn < T and positive a, b: a positive shortage.
C5_Witness ==
    /\ model.B # None
    /\ val(model.a) > 0 /\ val(model.b) > 0
    /\ 0 <= val(model.T1) /\ val(model.T1) < val(model.tn) /\ val(model.tn) < val(model.T)
    /\ val(model.B) > 0

ValidFor6(m) ==
    /\ m.V # None
    /\ val(m.a) >= 0 /\ val(m.b) >= 0 /\ val(m.s) >= 0
    /\ Ordered(m.T1, m.tn, m.T)
    /\ m.T = m.tn

\* C6 as stated: for valid parameters with T = tn, B = 0 and V = 0.
C6_Original ==
    ValidFor6(model) => model.B = N(0) /\ model.V = N(0)

\* C6 amended: for valid parameters with T = tn,
\* B = a (tn - T1) + (b / 2) (tn^2 - T1^2) and
\* V = s (tn - T1)^2 (3 a + b (tn + 2 T1)) / 6, the shortage of [T1, tn];
\* both are 0 when T1 = tn as well.
C6_Amended ==
    ValidFor6(model) =>
        LET a == val(model.a)
            b == val(model.b)
            s == val(model.s)
            T1 == val(model.T1)
            tn == val(model.tn)
        IN  /\ val(model.B) * 2 = Den * (2 * a * (tn - T1) + b * (tn * tn - T1 * T1))
            /\ val(model.V) * 6
                 = Den * s * (tn - T1) * (tn - T1) * (3 * a + b * (tn + 2 * T1))
            /\ T1 = tn => model.B = N(0) /\ model.V = N(0)

\* The derived quantities computed for T1 < tn = T with positive a, b, s:
\* a shortage that the amended formulas give and that is not 0.
C6_Witness ==
    /\ ValidFor6(model)
    /\ val(model.a) > 0 /\ val(model.b) > 0 /\ val(model.s) > 0
    /\ val(model.T1) < val(model.tn)
    /\ val(model.B) > 0 /\ val(model.V) > 0

\* C7: I(t) or D(t) evaluated at t < 0 or t > T ends in an error, never in
\* a returned value.
C7_OutOfDomainRaises ==
    (ret # None /\ (ret.t < 0 \/ ret.t > val(model.T))) => IsRaise(ret.value)

\* C8: optimize invoked with a degenerate box (tn <= 0 or T <= tn) ends in
\* an invalid-bounds error and no solver call.
C8_DegenerateBoxRejected ==
    (/\ event = N("optimize")
     /\ (val(model.tn) <= 0 \/ val(model.T) <= val(model.tn)))
    => solver = None /\ err = "InvalidBounds"

\* C9: with 0 <= T1 <= tn <= T, Q = a T + (b / 2) tn (2 T - tn), whatever
\* T1 is, and B = a (T - T1) - (b / 2) (tn^2 + T1^2) + b tn T.
C9_ClosedForms ==
    (model.TP # None /\ Ordered(model.T1, model.tn, model.T)) =>
        LET a == val(model.a)
            b == val(model.b)
            T1 == val(model.T1)
            tn == val(model.tn)
            T == val(model.T)
        IN  /\ val(model.Q) * 2 = Den * (2 * a * T + b * tn * (2 * T - tn))
            /\ val(model.B) * 2
                 = Den * (2 * a * (T - T1) - b * (tn * tn + T1 * T1) + 2 * b * tn * T)
            /\ model.Q = N(val(model.q0) + val(model.B))

\* The derived quantities computed for 0 < T1 = tn < T and positive a, b:
\* a first lot and a shortage that add up to Q.
C9_Witness ==
    /\ model.TP # None
    /\ val(model.a) > 0 /\ val(model.b) > 0
    /\ 0 < val(model.T1) /\ val(model.T1) = val(model.tn) /\ val(model.tn) < val(model.T)
    /\ val(model.q0) > 0 /\ val(model.B) > 0

\* C10: when optimize is invoked with 0 <= T1 <= tn <= T, the initial point
\* handed to the solver has its first coordinate in [0, tn] and its second
\* in [tn, T].
C10_InitialPointInBox ==
    (event = N("optimize") /\ Ordered(model.T1, model.tn, model.T)) =>
        /\ 0 <= solver.x0[1] /\ solver.x0[1] <= val(model.tn)
        /\ val(model.tn) <= solver.x0[2] /\ solver.x0[2] <= val(model.T)

====
